---- MODULE Spec2Model ----
(***************************************************************************)
(* Model of the magnetometer acquisition program:                          *)
(*   magrun.py        measure_and_save, compress_files_with_script,        *)
(*                    write_filenames_to_txt                               *)
(*   RM3100_NM.py     measure_and_save_cont_MAG, RM3100.check_measurement, *)
(*                    RM3100.read8, RM3100.read_measurements               *)
(*   compress_script.py  compress_files_with_xz,                           *)
(*                    compress_batch_files_with_xz                         *)
(*                                                                         *)
(* Time is counted in clock ticks, TicksPerSec ticks to the second, and a  *)
(* polling round over the magnetometers takes one tick; the durations of   *)
(* the program are in seconds and file names carry the start time at       *)
(* second resolution.                                                      *)
(***************************************************************************)
EXTENDS Integers, Sequences, FiniteSets, TLC

(* ------------------------------ bounds -------------------------------- *)
MaxDuration == 2        \* tick-level runs: total duration in seconds
MaxMags == 2            \* tick-level runs: number of magnetometers
RunMaxDuration == 18    \* segment-level runs: total duration in seconds
TicksPerSec == 1        \* clock resolution of the model
MaxPretime == 1         \* ticks the host takes to open the files of a segment
MaxRateDuration == 6    \* rate estimator: segment durations tried
MaxManifest == 3        \* archiver: lines in a manifest
MaxArchFiles == 2       \* archiver: distinct listed paths
ConcMaxDuration == 6    \* runs beside their archivers: total duration in seconds
MaxSamples == 2         \* writers: samples in a closed segment
MaxTs == 5              \* writers: latest timestamp, in doubles after the first
TsSub == 4              \* writers: doubles to the microsecond
MaxTurnaround == 1      \* segment-level runs: ticks between two segments
ArgsMaxSmall == 2       \* command lines: the small durations and lengths tried
ArgsMaxSegs == 3        \* command lines: segments followed of a run
TextMaxDuration == 6    \* measure_and_save_text: total duration in seconds
LoopMaxDuration == 2    \* runs keeping the timestamps: total duration in seconds
LoopMaxMags == 1        \* runs keeping the timestamps: number of magnetometers
FreqMaxDuration == 1    \* runs keeping the frequency reads: total duration in seconds
FreqMaxMags == 2        \* runs keeping the frequency reads: number of magnetometers

(* -------------------------- program constants ------------------------- *)
BatchThreshold == 16
Addresses == <<32, 33, 34, 35>>
TMRC == 150             \* frq=0x96 written to the TMRC register
Freqs == {3, 6}         \* values of the TMRC register tried (a byte)
Bytes == 0 .. 255
LengthCap == 10800      \* min(inputlength, 10800) of parse_arguments
KeepThreshold == 36     \* len(filepaths) > 36*len(magnetometers)

(* ------------------------------ helpers ------------------------------- *)
Min(a, b) == IF a <= b THEN a ELSE b
Max(a, b) == IF a >= b THEN a ELSE b
Range(s) == {s[k] : k \in DOMAIN s}
CeilDiv(a, b) == (a + b - 1) \div b
RECURSIVE SeqMax(_)
SeqMax(s) == IF Len(s) = 1 THEN s[1] ELSE Max(s[1], SeqMax(Tail(s)))
RECURSIVE Flatten(_)
Flatten(ss) == IF ss = <<>> THEN <<>> ELSE ss[1] \o Flatten(Tail(ss))

(* the stamp cut at the minute *)
Stamp_Minute(t) == t \div (60 * TicksPerSec)

(* time.strftime("%Y%m%d_%H%M%S", time.gmtime(t)): whole seconds of t *)
Stamp(t) == t \div TicksPerSec

(* ------------------- magrun.py: measure_and_save ---------------------- *)
(* a segment always as long as length, the remainder of the run ignored *)
SegmentDuration_NoRemainder(len, dur, el) == len

(* segment_duration = min(length, duration - elapsed_time) *)
SegmentDuration(len, dur, el) == Min(len, dur - el)

(* file_list.append(filepaths) for fewer than two magnetometers (the list  *)
(* object itself becomes one entry), file_list.extend(filepaths) otherwise *)
AppendPaths(fl, fps, n) ==
    IF n < 2 THEN Append(fl, [kind |-> "list", paths |-> fps])
    ELSE fl \o [k \in 1 .. Len(fps) |-> [kind |-> "str", paths |-> <<fps[k]>>]]

(* the test of the duration made inclusive: every segment dispatches *)
ShouldDispatch_EverySegment(fl, segdur, len) ==
    Len(fl) > BatchThreshold \/ segdur <= len

(* the threshold test made inclusive *)
ShouldDispatch_Inclusive(fl, segdur, len) ==
    Len(fl) >= BatchThreshold \/ segdur < len

(* len(file_list)>16 or segment_duration<length *)
ShouldDispatch(fl, segdur, len) == Len(fl) > BatchThreshold \/ segdur < len

(* --------------- magrun.py: write_filenames_to_txt -------------------- *)
(* index of the first entry that is not a string: filename + '\n' raises  *)
(* TypeError there *)
FirstBad(fl) ==
    IF \E k \in 1 .. Len(fl) : fl[k].kind = "list"
    THEN CHOOSE k \in 1 .. Len(fl) :
             fl[k].kind = "list" /\ \A j \in 1 .. k - 1 : fl[j].kind = "str"
    ELSE Len(fl) + 1

(* the outcomes of the file system while the manifest is written *)
WriteOutcomes(fl) ==
    {[kind |-> "ok", at |-> 0], [kind |-> "open_fail", at |-> 0]}
        \cup {[kind |-> "io_fail", at |-> k] : k \in {1, Len(fl)} \cap (1 .. Len(fl))}

(* created: open(txt_path,'w') succeeded; lines: what the file holds;      *)
(* ok: the loop ran to its end and "File list written" is logged *)
ManifestWrite(fl, w) ==
    IF w.kind = "open_fail"
    THEN [created |-> FALSE, lines |-> <<>>, ok |-> FALSE]
    ELSE LET stop == Min(FirstBad(fl),
                         IF w.kind = "io_fail" THEN w.at ELSE Len(fl) + 1)
         IN [created |-> TRUE,
             lines |-> [k \in 1 .. stop - 1 |-> fl[k].paths[1]],
             ok |-> stop = Len(fl) + 1]

(* --------------- magrun.py: compress_files_with_script ---------------- *)
(* the dispatcher removing the manifest when Popen raises *)
ManifestsAfterDispatch_Cleanup(ms, txt, wr, launch) ==
    IF wr.created /\ launch = "ok" THEN (txt :> wr.lines) @@ ms
    ELSE [k \in DOMAIN ms \ {txt} |-> ms[k]]

(* the manifests on disk after the dispatcher ran: the file is created or  *)
(* truncated by the write and stays whatever Popen does *)
ManifestsAfterDispatch(ms, txt, wr, launch) ==
    IF wr.created THEN (txt :> wr.lines) @@ ms ELSE ms

(* the archivers started so far: Popen is attempted whatever the write did *)
LaunchedAfterDispatch(ls, txt, wr, launch) ==
    IF launch = "ok" THEN Append(ls, txt) ELSE ls

(* the backlog kept after a dispatch *)
BacklogAfterDispatch_Keep(fl, wr, launch) == fl

(* file_list=list() follows the call unconditionally *)
BacklogAfterDispatch(fl, wr, launch) == <<>>

(* what the dispatcher appends to the log *)
DispatchLog(txt, wr, launch) ==
    << [ev |-> IF wr.ok THEN "File list written" ELSE "Failed to write file list",
        t |-> txt],
       [ev |-> IF launch = "ok" THEN "Compression script launched"
               ELSE "Failed to launch compression script",
        t |-> txt] >>

(* ------------- RM3100_NM.py: measure_and_save_cont_MAG ---------------- *)
(* read8 returns the byte, or False when the bus transfer fails *)
R8(ok, val) == [ok |-> ok, val |-> IF ok THEN val ELSE 0]

(* a read that failed taken for the highest byte *)
PyNum_FailHigh(r) == IF r.ok THEN r.val ELSE 255

(* False counts as 0 in max(...) and round(...) *)
PyNum(r) == IF r.ok THEN r.val ELSE 0

(* int(1.1*round(rfrq)/3); in double arithmetic this equals floor(11*f/30) *)
(* for every byte f *)
WorstFreq(rfrq) == (11 * rfrq) \div 30

(* rfrq = max(mag.read8(0x8B) for mag in mags) *)
MaxRead(reads) == SeqMax([k \in 1 .. Len(reads) |-> PyNum(reads[k])])

(* the bound rounded once, after the multiplication by the duration *)
WorstCounter_RoundOnce(reads, dur) == (11 * MaxRead(reads) * dur) \div 30

(* worstcounter = worstfreq*duration *)
WorstCounter(reads, dur) == WorstFreq(MaxRead(reads)) * dur

(* RM3100.check_measurement: False when the read of 0xB4 fails, else bit 7 *)
CheckMeasurement(r) == r.ok /\ (r.val \div 128) % 2 = 1

StatusReads == {R8(FALSE, 0), R8(TRUE, 0), R8(TRUE, 128)}

(* the cap compared with <= *)
Accept_OffByOne(ready, counter, worst) == ready /\ counter <= worst

(* mag.check_measurement() and counters[i]<worstcounter *)
Accept(ready, counter, worst) == ready /\ counter < worst

(* the counter incremented before the read is known to have succeeded *)
CounterAfter_BeforeRead(counter, accepted, readok) ==
    IF accepted THEN counter + 1 ELSE counter

(* counters[i] += 1 is reached only when read_measurements returned data *)
CounterAfter(counter, accepted, readok) ==
    IF accepted /\ readok THEN counter + 1 ELSE counter

(* counters carried over from the segment before *)
InitCounters_Carry(old, n) == old

(* counters.append(0) for every magnetometer at the start of a segment *)
InitCounters(old, n) == [k \in 1 .. n |-> 0]

(* the round abandoned when a magnetometer is not ready *)
NextMag_Break(i, n, ready, readok) == IF i < n /\ ready THEN i + 1 ELSE 0

(* for i, mag in enumerate(mags): the next magnetometer, 0 after the last *)
NextMag(i, n, ready, readok) == IF i < n THEN i + 1 ELSE 0

(* the rows kept when a segment begins: the last one emitted so far *)
LastRow(rows) == IF rows = <<>> THEN <<>> ELSE <<rows[Len(rows)]>>

(* the file named after the magnetometer only *)
FilePath_NoStamp(k, t) == [mag |-> Addresses[k], t |-> 0]

(* os.path.join(save_folder, f"mag_{magaddr}_{strftime(start)}.csv") *)
FilePath(k, t) == [mag |-> Addresses[k], t |-> Stamp(t)]

(* ------------------------------- state -------------------------------- *)
VARIABLES
    duration,          \* total duration of the run, seconds
    length,            \* segment length, seconds
    nMags,             \* number of magnetometers in the list
    freq,              \* freq[k]: the TMRC register of magnetometer k
    argv,              \* the command line: len(sys.argv), the duration and
                       \* the length given on it
    opening,           \* ticks the host takes to open the files of a segment
    turnaround,        \* ticks measure_and_save takes between two segments
    boot,              \* main before measure_and_save: what makedirs did and
                       \* the test-register reads of the magnetometers launched
    codec,             \* a closed segment, the file a writer made of it and
                       \* what reading the file back gives
    pc,                \* "loop", "round", "poll", "done", "crashed"
    elapsed_time,      \* measure_and_save: elapsed_time
    segment_duration,  \* measure_and_save: segment_duration
    file_list,         \* measure_and_save: the backlog
    segs,              \* the segments finished so far: duration and paths
    now,               \* the wall clock, ticks
    start,             \* measure_and_save_cont_MAG: start
    pretime,           \* measure_and_save_cont_MAG: pretime
    worstcounter,      \* measure_and_save_cont_MAG: worstcounter
    counters,          \* measure_and_save_cont_MAG: counters
    cur,               \* the magnetometer the for loop is at, 0 outside
    file_paths,        \* measure_and_save_cont_MAG: file_paths
    openfiles,         \* paths of the files this process holds open
    files,             \* segment files on disk
    recorded,          \* recorded[k]: the sample rows emitted for k in the
                       \* latest segment acquired, after the last row
                       \* emitted before it
    last,              \* the outcome of the latest ready-check
    everReady,         \* everReady[k]: a ready-check of k returned True
    checks,            \* checks[k]: the ready-checks of k made in the segment
    frqreads,          \* what read8(0x8B) returned for each magnetometer when
                       \* the segment was set up, in the runs that keep it
    manifests,         \* manifest files on disk: stamp -> lines
    launched,          \* stamps of the manifests an archiver was started on
    maglog,            \* the dispatcher's entries of the log
    rfrq,              \* measure_and_save_cont_MAG: rfrq
    dispatches,        \* the calls of compress_files_with_script made
    archs,             \* the archiver processes: one record each
    compressed,        \* paths whose compressed copy is on disk
    archlog            \* what the archivers printed

runVars == <<duration, length, nMags, freq, argv, opening, turnaround, boot, codec,
             elapsed_time, segment_duration, file_list, segs>>
segVars == <<start, pretime, rfrq, worstcounter, counters, cur, file_paths,
             openfiles, files, recorded, last, everReady, checks, frqreads>>
dispVars == <<manifests, launched, maglog, dispatches>>
archVars == <<archs, compressed, archlog>>
vars == <<runVars, segVars, dispVars, archVars, pc, now>>

NoPoll == [mag |-> 0, ready |-> "none", read |-> "none", capped |-> FALSE]

(* launch_magnetometers writes the same frq to every magnetometer; the     *)
(* time the host takes to open the files, and the time it takes between    *)
(* the return of a segment and the call for the next, are the same for     *)
(* every segment; the command line asked for the duration and the length   *)
ConfigInit(maxD, maxN, fs, maxPre, maxTurn) ==
    /\ duration \in 1 .. maxD
    /\ length \in 1 .. duration
    /\ argv = [n |-> 4, duration |-> duration, length |-> length]
    /\ nMags \in 1 .. maxN
    /\ \E f \in fs : freq = [k \in 1 .. nMags |-> f]
    /\ opening \in 0 .. maxPre
    /\ turnaround \in 0 .. maxTurn

(* main has reached measure_and_save: the folders exist and every        *)
(* magnetometer of the list passed the test of launch *)
Booted(n) == [dir |-> "ok", tests |-> [k \in 1 .. n |-> TRUE]]

MeasureInit ==
    /\ elapsed_time = 0
    /\ segment_duration = 0
    /\ file_list = <<>>
    /\ segs = <<>>
    /\ now = 0
    /\ start = 0
    /\ pretime = 0
    /\ rfrq = 0
    /\ worstcounter = 0
    /\ counters = [k \in 1 .. nMags |-> 0]
    /\ cur = 0
    /\ file_paths = <<>>
    /\ openfiles = {}
    /\ recorded = [k \in 1 .. nMags |-> <<>>]
    /\ last = NoPoll
    /\ everReady = [k \in 1 .. nMags |-> FALSE]
    /\ checks = [k \in 1 .. nMags |-> 0]
    /\ frqreads = <<>>
    /\ maglog = <<>>
    /\ dispatches = <<>>

(* no segment is being written or read back *)
NoCodec == [pc |-> "off", samples |-> <<>>, writer |-> "none", file |-> <<>>,
            decoded |-> <<>>, again |-> <<>>]

ProgInit == MeasureInit /\ boot = Booted(nMags) /\ codec = NoCodec

DiskInit ==
    /\ files = {}
    /\ manifests = <<>>
    /\ launched = <<>>
    /\ archs = <<>>
    /\ compressed = {}
    /\ archlog = <<>>

Init ==
    ConfigInit(MaxDuration, MaxMags, Freqs, MaxPretime, 0) /\ ProgInit /\ DiskInit
        /\ pc = "loop"

(* the duration left out of the deadline *)
finish_NoDuration == start

(* finish = start + duration, line 247 *)
finish == start + segment_duration * TicksPerSec

(* ------------------------------ actions ------------------------------- *)
(* measure_and_save lines 184-190 and measure_and_save_cont_MAG lines      *)
(* 247-281: the loop test succeeds, the segment is set up.  openUpTo is    *)
(* the number of files opened before open() raised (nMags: none raised);   *)
(* the exception leaves measure_and_save and ends the run.  What the reads *)
(* of the frequency register returned is kept in the runs made for them.   *)
SetUpSegmentAt(frOk, openUpTo, pre, elapse, keepReads) ==
    /\ pc = "loop"
    /\ elapsed_time < duration
    /\ LET segdur == SegmentDuration(length, duration, elapsed_time)
           paths == [k \in 1 .. nMags |-> FilePath(k, now)]
           made == {paths[k] : k \in 1 .. openUpTo}
       IN /\ segment_duration' = segdur
          /\ start' = now
          /\ rfrq' = MaxRead([k \in 1 .. nMags |-> R8(frOk[k], freq[k])])
          /\ worstcounter' =
                 WorstCounter([k \in 1 .. nMags |-> R8(frOk[k], freq[k])], segdur)
          /\ counters' = InitCounters(counters, nMags)
          /\ files' = files \cup made
          /\ openfiles' = openfiles \cup made
          /\ IF openUpTo = nMags
             THEN /\ file_paths' = paths
                  /\ pretime' = pre
                  /\ now' = now + pre + elapse
                  /\ pc' = "round"
             ELSE /\ file_paths' = SubSeq(paths, 1, openUpTo + 1)
                  /\ pretime' = pretime
                  /\ now' = now
                  /\ pc' = "crashed"
    /\ cur' = 0
    /\ last' = NoPoll
    /\ checks' = [k \in 1 .. nMags |-> 0]
    /\ frqreads' = IF keepReads THEN [k \in 1 .. nMags |-> R8(frOk[k], freq[k])]
                   ELSE frqreads
    /\ recorded' = IF openUpTo = nMags
                   THEN [k \in 1 .. nMags |-> LastRow(recorded[k])]
                   ELSE recorded
    /\ UNCHANGED <<duration, length, nMags, freq, argv, opening, turnaround, boot, codec,
                   elapsed_time, file_list, segs,
                   everReady, dispVars, archVars>>

SetUpSegment(frOk, openUpTo, pre, elapse) ==
    SetUpSegmentAt(frOk, openUpTo, pre, elapse, FALSE)

StartSegment ==
    \E frOk \in [1 .. nMags -> BOOLEAN], openUpTo \in 0 .. nMags :
        SetUpSegment(frOk, openUpTo, opening, 0)

(* while time.time() <= finish + pretime: a polling round begins *)
RoundStart ==
    /\ pc = "round"
    /\ now <= finish + pretime
    /\ pc' = "poll"
    /\ cur' = 1
    /\ UNCHANGED <<runVars, start, pretime, rfrq, worstcounter, counters,
                   file_paths, openfiles, files, recorded, last,
                   everReady, checks, frqreads,
                   dispVars, archVars, now>>

ReadyChecked_CapFirst(counter, worst) == counter < worst

(* line 288: check_measurement() is the left operand of "and", so the      *)
(* ready-check of a sensor is made whatever its counter is                 *)
ReadyChecked(counter, worst) == TRUE

(* the timestamp taken from the start of the segment *)
Timestamp_SinceStart(t, s) == t - s

(* timestamp = time.time(), line 291 (line 348 of RM3100_SOFIA.py) *)
Timestamp(t, s) == t

(* the row emitted for a sample; the timestamps are kept in the runs made  *)
(* for them and left out of the others *)
Row(seg, counter, ts, keepTs) ==
    IF keepTs THEN [seg |-> seg, counter |-> counter, ts |-> ts]
    ELSE [seg |-> seg, counter |-> counter]

(* lines 287-313: one pass of the for loop, for magnetometer cur.  st is   *)
(* what read8(0xB4) returns, rd whether read_measurements returns data;    *)
(* the clock has advanced by one tick when the round is over. *)
PollAt(keepTs) ==
    /\ pc = "poll"
    /\ \E st \in StatusReads, rd \in BOOLEAN :
        LET ready == CheckMeasurement(st)
            acc == Accept(ready, counters[cur], worstcounter)
            nxt == NextMag(cur, nMags, ready, acc /\ rd)
        IN /\ (~acc => rd)
           /\ counters' = [counters EXCEPT ![cur] = CounterAfter(@, acc, rd)]
           /\ recorded' =
                  IF acc /\ rd
                  THEN [recorded EXCEPT ![cur] =
                           Append(@, Row(Len(segs) + 1, counters[cur],
                                         Timestamp(now, start), keepTs))]
                  ELSE recorded
           /\ last' = [mag |-> cur,
                       ready |-> IF ~st.ok THEN "fail"
                                 ELSE IF ready THEN "yes" ELSE "no",
                       read |-> IF ~acc THEN "none"
                                ELSE IF rd THEN "ok" ELSE "fail",
                       capped |-> ready /\ ~acc]
           /\ everReady' = [everReady EXCEPT ![cur] = @ \/ ready]
           /\ checks' = [checks EXCEPT ![cur] =
                  IF ReadyChecked(counters[cur], worstcounter) THEN @ + 1 ELSE @]
           /\ cur' = nxt
           /\ IF nxt = 0
              THEN pc' = "round" /\ now' = now + 1
              ELSE pc' = "poll" /\ now' = now
    /\ UNCHANGED <<runVars, start, pretime, rfrq, worstcounter, file_paths,
                   openfiles, files, frqreads, dispVars, archVars>>

Poll == PollAt(FALSE)

(* the files of the segment left open when the function returns *)
OpenAfterReturn_LeftOpen(open, fps) == open

(* for f, _ in writers: f.close(), lines 316-317 (lines 367-368 of         *)
(* RM3100_SOFIA.py): the files the process holds open after the return *)
OpenAfterReturn(open, fps) == open \ Range(fps)

(* the while loop of measure_and_save_cont_MAG ends: lines 316-320 close   *)
(* the files and return file_paths; measure_and_save lines 192-215 append  *)
(* them to the backlog, dispatch when due, collect garbage, log the memory *)
(* in use and advance elapsed_time, which takes turnaround ticks. *)
SegmentReturn ==
    /\ pc = "round"
    /\ now > finish + pretime
    /\ LET fl == AppendPaths(file_list, file_paths, nMags)
           txt == Stamp(now)
       IN IF ShouldDispatch(fl, segment_duration, length)
          THEN \E w \in WriteOutcomes(fl), launch \in {"ok", "fail"} :
                  LET wr == ManifestWrite(fl, w)
                  IN /\ manifests' = ManifestsAfterDispatch(manifests, txt, wr, launch)
                     /\ launched' = LaunchedAfterDispatch(launched, txt, wr, launch)
                     /\ maglog' = maglog \o DispatchLog(txt, wr, launch)
                     /\ dispatches' = Append(dispatches,
                            [t |-> txt, fl |-> fl, segdur |-> segment_duration,
                             fs |-> w.kind, written |-> wr, launch |-> launch])
                     /\ file_list' = BacklogAfterDispatch(fl, wr, launch)
          ELSE /\ file_list' = fl
               /\ UNCHANGED dispVars
    /\ openfiles' = OpenAfterReturn(openfiles, file_paths)
    /\ segs' = Append(segs, [dur |-> segment_duration, paths |-> file_paths,
                              start |-> start, closed |-> now])
    /\ now' = now + turnaround
    /\ elapsed_time' = elapsed_time + segment_duration
    /\ pc' = "loop"
    /\ UNCHANGED <<duration, length, nMags, freq, argv, opening, turnaround, boot, codec,
                   segment_duration, start,
                   pretime, rfrq, worstcounter, counters, cur, file_paths, files,
                   recorded, last, everReady, checks, frqreads, archVars>>

(* while elapsed_time < duration fails: measure_and_save returns *)
Return ==
    /\ pc = "loop"
    /\ elapsed_time >= duration
    /\ pc' = "done"
    /\ UNCHANGED <<runVars, segVars, dispVars, archVars, now>>

Next == StartSegment \/ RoundStart \/ Poll \/ SegmentReturn \/ Return

Spec == Init /\ [][Next]_vars

(* Segment-level runs: measure_and_save_cont_MAG is taken in one step, in  *)
(* the run of the loop in which no magnetometer reports a sample and the   *)
(* clock is first read past the deadline one tick after it. *)
InitRun ==
    ConfigInit(RunMaxDuration, Len(Addresses), {TMRC}, 0, MaxTurnaround) /\ ProgInit /\ DiskInit
        /\ pc = "loop"

AcquireSegment ==
    \E openUpTo \in {0, nMags} :
        SetUpSegment([k \in 1 .. nMags |-> TRUE], openUpTo, 0,
                     SegmentDuration(length, duration, elapsed_time) * TicksPerSec + 1)

NextRun == AcquireSegment \/ SegmentReturn \/ Return

SpecRun == InitRun /\ [][NextRun]_vars

(* Rate estimator runs: one magnetometer reporting any byte as its         *)
(* frequency, the others a frequency of Freqs; the segment loop is taken   *)
(* in one step as in the segment-level runs, the read of the frequency     *)
(* register may fail. *)
InitRate ==
    /\ duration \in 1 .. MaxRateDuration
    /\ length \in {1, duration}
    /\ nMags \in 1 .. MaxMags
    /\ \E b \in Bytes, g \in [1 .. nMags -> Freqs] :
          freq = [k \in 1 .. nMags |-> IF k = 1 THEN b ELSE g[k]]
    /\ opening = 0
    /\ turnaround = 0
    /\ argv = [n |-> 4, duration |-> duration, length |-> length]
    /\ ProgInit /\ DiskInit /\ pc = "loop"

EstimateSegment ==
    \E frOk \in [1 .. nMags -> BOOLEAN] :
        SetUpSegment(frOk, nMags, 0,
                     SegmentDuration(length, duration, elapsed_time) * TicksPerSec + 1)

NextRate == EstimateSegment \/ SegmentReturn \/ Return

SpecRate == InitRate /\ [][NextRate]_vars

(* ------------------------- compress_script.py ------------------------- *)
NoPath == [mag |-> 0, t |-> 0]
ArchPaths == {FilePath(k, 0) : k \in 1 .. MaxArchFiles}
ManifestTexts == UNION {[1 .. n -> ArchPaths] : n \in 0 .. MaxManifest}

(* what running xz or tar can do: exit 0, exit non-zero                    *)
(* (CalledProcessError), or not start at all (OSError) *)
ToolOutcomes == {"ok", "CalledProcessError", "OSError"}

Entry(j, ev, p) == [job |-> j, ev |-> ev, p |-> p]

(* os.remove(txt_file_path) and the print that follows, or the handler of  *)
(* FileNotFoundError *)
RemoveManifest(ms, txt) == [k \in DOMAIN ms \ {txt} |-> ms[k]]

(* the archiver is started on a manifest: python3 compress_script.py       *)
(* <manifest> [<archive>] *)
InitArchiver ==
    /\ ConfigInit(1, 1, {TMRC}, 0, 0) /\ ProgInit /\ pc = "off"
    /\ files \in SUBSET ArchPaths
    /\ \/ manifests = <<>>
       \/ \E txt \in ManifestTexts : manifests = (0 :> txt)
    /\ launched = <<0>>
    /\ \E m \in {"xz", "batch"} :
          archs = <<[pc |-> "start", mode |-> m, txt |-> 0, list |-> <<>>, idx |-> 0]>>
    /\ compressed = {}
    /\ archlog = <<>>

(* lines 15-16 and 60-61: the manifest is read, FileNotFoundError handled  *)
(* at lines 41-42 and 92-93 *)
ArchReadJob(j) ==
    /\ archs[j].pc = "start"
    /\ IF archs[j].txt \in DOMAIN manifests
       THEN /\ archs' = [archs EXCEPT ![j].pc = "files",
                                      ![j].list = manifests[archs[j].txt],
                                      ![j].idx = 1]
            /\ archlog' = archlog
       ELSE /\ archs' = [archs EXCEPT ![j].pc = "done"]
            /\ archlog' = Append(archlog, Entry(j, "Text file not found", NoPath))
    /\ UNCHANGED <<runVars, segVars, dispVars, compressed, pc, now>>

(* compress_files_with_xz lines 18-35: one pass of the loop; outs is what  *)
(* running xz can do on this host *)
ArchCompressFileJob(j, outs) ==
    /\ archs[j].mode = "xz"
    /\ archs[j].pc = "files"
    /\ archs[j].idx <= Len(archs[j].list)
    /\ LET p == archs[j].list[archs[j].idx]
       IN IF p \notin files
          THEN /\ archlog' = Append(archlog, Entry(j, "File not found", p))
               /\ archs' = [archs EXCEPT ![j].idx = @ + 1]
               /\ UNCHANGED <<files, compressed>>
          ELSE \E out \in outs :
                 CASE out = "ok" ->
                        /\ files' = files \ {p}
                        /\ compressed' = compressed \cup {p}
                        /\ archlog' = Append(archlog, Entry(j, "Compressed", p))
                        /\ archs' = [archs EXCEPT ![j].idx = @ + 1]
                   [] out = "CalledProcessError" ->
                        /\ archlog' = Append(archlog, Entry(j, "Error compressing", p))
                        /\ archs' = [archs EXCEPT ![j].idx = @ + 1]
                        /\ UNCHANGED <<files, compressed>>
                   [] out = "OSError" ->
                        /\ archlog' = Append(archlog, Entry(j, "Error processing text file", p))
                        /\ archs' = [archs EXCEPT ![j].pc = "done"]
                        /\ UNCHANGED <<files, compressed>>
    /\ UNCHANGED <<runVars, start, pretime, rfrq, worstcounter, counters, cur,
                   file_paths, openfiles, recorded, last,
                   everReady, checks, frqreads, dispVars,
                   pc, now>>

(* compress_batch_files_with_xz lines 63-86: the existing paths are        *)
(* collected and tar is run on them with --remove-files; the handler of    *)
(* CalledProcessError prints file_path, which is unbound when the manifest *)
(* is empty; tar refuses to create an empty archive *)
ArchBatchTarJob(j) ==
    /\ archs[j].mode = "batch"
    /\ archs[j].pc = "files"
    /\ LET list == archs[j].list
           Exists(p) == p \in files
           Missing(p) == p \notin files
           files_to_compress == SelectSeq(list, Exists)
           notfound == [k \in 1 .. Len(SelectSeq(list, Missing)) |->
                          Entry(j, "File not found", SelectSeq(list, Missing)[k])]
       IN \E out \in (IF files_to_compress = <<>> THEN ToolOutcomes \ {"ok"}
                       ELSE ToolOutcomes) :
            CASE out = "ok" ->
                   /\ files' = files \ Range(files_to_compress)
                   /\ compressed' = compressed \cup Range(files_to_compress)
                   /\ archlog' = archlog \o notfound \o <<Entry(j, "Compressed", NoPath)>>
                   /\ archs' = [archs EXCEPT ![j].pc = "remove"]
              [] out = "CalledProcessError" ->
                   /\ archlog' = archlog \o notfound \o
                         <<Entry(j, IF list = <<>> THEN "Error processing text file"
                                    ELSE "Error compressing", NoPath)>>
                   /\ archs' = [archs EXCEPT ![j].pc =
                                    IF list = <<>> THEN "done" ELSE "remove"]
                   /\ UNCHANGED <<files, compressed>>
              [] out = "OSError" ->
                   /\ archlog' = archlog \o notfound \o
                         <<Entry(j, "Error processing text file", NoPath)>>
                   /\ archs' = [archs EXCEPT ![j].pc = "done"]
                   /\ UNCHANGED <<files, compressed>>
    /\ UNCHANGED <<runVars, start, pretime, rfrq, worstcounter, counters, cur,
                   file_paths, openfiles, recorded, last,
                   everReady, checks, frqreads, dispVars,
                   pc, now>>

(* lines 37-39 and 88-90: the manifest is removed once the loop, or tar,   *)
(* is over *)
ArchRemoveJob(j) ==
    /\ \/ archs[j].pc = "remove"
       \/ /\ archs[j].mode = "xz"
          /\ archs[j].pc = "files"
          /\ archs[j].idx > Len(archs[j].list)
    /\ manifests' = RemoveManifest(manifests, archs[j].txt)
    /\ archlog' = Append(archlog,
          Entry(j, IF archs[j].txt \in DOMAIN manifests THEN "Deleted text file"
                   ELSE "Text file not found", NoPath))
    /\ archs' = [archs EXCEPT ![j].pc = "done"]
    /\ UNCHANGED <<runVars, segVars, launched, maglog, dispatches, compressed, pc, now>>

ArchRead == \E j \in 1 .. Len(archs) : ArchReadJob(j)
ArchCompressFile ==
    \E j \in 1 .. Len(archs) : ArchCompressFileJob(j, ToolOutcomes)
ArchBatchTar == \E j \in 1 .. Len(archs) : ArchBatchTarJob(j)
ArchRemove == \E j \in 1 .. Len(archs) : ArchRemoveJob(j)

NextArchiver == ArchRead \/ ArchCompressFile \/ ArchBatchTar \/ ArchRemove

SpecArchiver == InitArchiver /\ [][NextArchiver]_vars

(* ------------- the run together with the archivers it starts ---------- *)
(* Segment-level runs in which the processes started by Popen run beside   *)
(* measure_and_save.  The operating system starts the child some time      *)
(* after Popen returned; magrun.py passes the manifest only, so the child  *)
(* runs compress_files_with_xz; xz succeeds on every file it is given. *)
InitConc ==
    ConfigInit(ConcMaxDuration, Len(Addresses), {TMRC}, 0, 0) /\ ProgInit /\ DiskInit
        /\ pc = "loop"

ArchSpawn ==
    /\ Len(archs) < Len(launched)
    /\ archs' = Append(archs, [pc |-> "start", mode |-> "xz",
                               txt |-> launched[Len(archs) + 1],
                               list |-> <<>>, idx |-> 0])
    /\ UNCHANGED <<runVars, segVars, dispVars, compressed, archlog, pc, now>>

ArchCompressFileOk ==
    \E j \in 1 .. Len(archs) : ArchCompressFileJob(j, {"ok"})

(* the dispatcher waiting for every archiver it started to finish *)
Awaited_Wait(ls, as) ==
    {k \in 1 .. Len(ls) : k > Len(as) \/ as[k].pc # "done"}

(* the archivers compress_files_with_script waits for before it returns:   *)
(* subprocess.Popen returns once the child is created, and neither wait()  *)
(* nor communicate() is called on it *)
Awaited(ls, as) == {}

(* measure_and_save goes round its loop once the dispatcher has returned *)
LoopOn ==
    /\ Awaited(launched, archs) = {}
    /\ AcquireSegment

NextConc ==
    \/ LoopOn \/ SegmentReturn \/ Return
    \/ ArchSpawn \/ ArchRead \/ ArchCompressFileOk \/ ArchRemove

(* the interpreter keeps running measure_and_save; nothing is assumed of   *)
(* the scheduling of the archivers *)
SpecConc ==
    /\ InitConc /\ [][NextConc]_vars
    /\ WF_vars(LoopOn) /\ WF_vars(SegmentReturn) /\ WF_vars(Return)

(* --------------------------- magrun.py: main --------------------------- *)
(* Runs from the start of main: initialize_logging, launch_magnetometers   *)
(* and then measure_and_save, polled tick by tick.  launch_tempsensors     *)
(* raises nothing: the constructor of MCP9808 catches what the bus raises. *)
NotBooted == [dir |-> "none", tests |-> <<>>]

InitMain ==
    /\ ConfigInit(MaxDuration, MaxMags, {TMRC}, 0, 0)
    /\ MeasureInit /\ DiskInit
    /\ boot = NotBooted
    /\ codec = NoCodec
    /\ pc = "boot"

(* a launch that goes on whatever the test-register read returned *)
AfterLaunch_Tolerant(tests) == "loop"

(* launch raises when read8(0xB6) returns False; the list comprehension of *)
(* launch_magnetometers and main catch nothing, so the process ends *)
AfterLaunch(tests) ==
    IF \A k \in 1 .. Len(tests) : tests[k] THEN "loop" ELSE "aborted"

(* the magnetometers launch was called for: the list comprehension stops   *)
(* at the first one that raises *)
Launched(t) ==
    IF \A k \in 1 .. Len(t) : t[k] THEN t
    ELSE SubSeq(t, 1, CHOOSE k \in 1 .. Len(t) :
                          ~t[k] /\ \A j \in 1 .. k - 1 : t[j])

(* initialize_logging lines 94-109: os.makedirs or open of the log raises  *)
(* OSError, which nothing catches *)
InitializeLogging ==
    /\ pc = "boot"
    /\ \E dirOk \in BOOLEAN :
          /\ boot' = [boot EXCEPT !.dir = IF dirOk THEN "ok" ELSE "fail"]
          /\ pc' = IF dirOk THEN "launch" ELSE "aborted"
    /\ UNCHANGED <<duration, length, nMags, freq, argv, opening, turnaround, codec, elapsed_time,
                   segment_duration, file_list, segs, segVars, dispVars,
                   archVars, now>>

(* launch_magnetometers lines 129-135 with launch of RM3100_NM.py lines    *)
(* 202-206: t[k] is whether the test-register read of magnetometer k       *)
(* succeeds *)
LaunchMagnetometers ==
    /\ pc = "launch"
    /\ \E t \in [1 .. nMags -> BOOLEAN] :
          /\ boot' = [boot EXCEPT !.tests = Launched(t)]
          /\ pc' = AfterLaunch(Launched(t))
    /\ UNCHANGED <<duration, length, nMags, freq, argv, opening, turnaround, codec, elapsed_time,
                   segment_duration, file_list, segs, segVars, dispVars,
                   archVars, now>>

NextMain ==
    \/ InitializeLogging \/ LaunchMagnetometers
    \/ StartSegment \/ RoundStart \/ Poll \/ SegmentReturn \/ Return

SpecMain == InitMain /\ [][NextMain]_vars

(* ---------------------- magrun.py: parse_arguments -------------------- *)
(* Runs from the command line: parse_arguments and then measure_and_save,  *)
(* taken segment by segment, with the magnetometers of                     *)
(* launch_magnetometers.  The durations and lengths are the integers from  *)
(* -1 to ArgsMaxSmall and those about the two caps, 3600 and 10800. *)
ArgValues == (-1 .. ArgsMaxSmall) \cup {3600, 3601, 10800, 10801}

(* python3 magrun.py <bus> [<duration> [<length> [<more>]]]: len(sys.argv) *)
(* is n; a length is on the command line when n >= 4 *)
Argvs ==
    {[n |-> n, duration |-> d, length |-> l] :
        n \in 2 .. 5, d \in ArgValues, l \in ArgValues} \ 
    {a \in [n : 2 .. 3, duration : ArgValues, length : ArgValues] : a.length # 0}

(* lines 65-74: inputlength is the duration unless len(sys.argv) == 4,     *)
(* then the third argument, lowered to the duration when above it; the     *)
(* length returned is min(inputlength, 10800) *)
ParseArguments(a) ==
    LET inputlength == IF a.n = 4 /\ a.length <= a.duration THEN a.length
                       ELSE a.duration
    IN [duration |-> a.duration, length |-> Min(inputlength, LengthCap)]

InitArgs ==
    /\ argv \in Argvs
    /\ duration = 0
    /\ length = 0
    /\ nMags = Len(Addresses)
    /\ freq = [k \in 1 .. nMags |-> TMRC]
    /\ opening = 0
    /\ turnaround = 0
    /\ ProgInit /\ DiskInit
    /\ pc = "args"

(* lines 62-63 raise ValueError, which main does not catch *)
ParseArgs ==
    /\ pc = "args"
    /\ IF argv.n < 3
       THEN pc' = "usage" /\ UNCHANGED <<duration, length>>
       ELSE /\ duration' = ParseArguments(argv).duration
            /\ length' = ParseArguments(argv).length
            /\ pc' = "loop"
    /\ UNCHANGED <<nMags, freq, argv, opening, turnaround, boot, codec,
                   elapsed_time, segment_duration, file_list, segs, segVars,
                   dispVars, archVars, now>>

(* a segment in which no magnetometer reports a sample; the loop of        *)
(* measure_and_save_cont_MAG is not entered when the duration asked for is *)
(* negative, and the clock is one tick further when the function returns.  *)
(* A run is followed for ArgsMaxSegs segments. *)
AcquireAnySegment ==
    /\ Len(segs) < ArgsMaxSegs
    /\ SetUpSegment([k \in 1 .. nMags |-> TRUE], nMags, 0,
           Max(0, SegmentDuration(length, duration, elapsed_time)) * TicksPerSec + 1)

NextArgs == ParseArgs \/ AcquireAnySegment \/ SegmentReturn \/ Return

SpecArgs == InitArgs /\ [][NextArgs]_vars

(* ------------- depracatedfunc.py: measure_and_save_text --------------- *)
(* Runs of measure_and_save_text: a pass of its loop is one step, in which *)
(* measure_cont takes the duration of the segment and one tick more and    *)
(* save_results_to_csv makes one file for each magnetometer; the calls of  *)
(* compress_file_keep are kept in archlog and compressed holds the paths   *)
(* xz succeeded on. *)
InitText ==
    /\ ConfigInit(TextMaxDuration, MaxMags, {TMRC}, 0, 0) /\ ProgInit /\ DiskInit
    /\ pc = "text"

(* filepaths=[] at line 218, the first statement of every pass *)
TextPathsAtPass(fps) == <<>>

(* compress_file_keep on each path of ps in turn; ok[k] is whether xz      *)
(* succeeds on the k-th *)
KeepLog(ps) == [k \in 1 .. Len(ps) |-> Entry(0, "compress_file_keep", ps[k])]
KeptOk(ps, ok) == {ps[k] : k \in {i \in 1 .. Len(ps) : ok[i]}}

(* lines 217-258: one pass of the while loop *)
TextSegment ==
    /\ pc = "text"
    /\ elapsed_time < duration
    /\ LET segdur == SegmentDuration(length, duration, elapsed_time)
           new == [k \in 1 .. nMags |-> FilePath(k, now)]
           fps == TextPathsAtPass(file_list) \o new
           over == Len(fps) > KeepThreshold * nMags
           early == IF over THEN SubSeq(fps, 1, Len(fps) - 1) ELSE <<>>
       IN /\ segment_duration' = segdur
          /\ start' = now
          /\ now' = now + segdur * TicksPerSec + 1
          /\ files' = files \cup Range(new)
          /\ segs' = Append(segs, [dur |-> segdur, paths |-> new,
                                   start |-> now, closed |-> now'])
          /\ \E ok \in [1 .. Len(early) -> BOOLEAN] :
                /\ archlog' = archlog \o KeepLog(early)
                /\ compressed' = compressed \cup KeptOk(early, ok)
          /\ file_list' = IF over THEN SubSeq(fps, Len(fps), Len(fps)) ELSE fps
          /\ elapsed_time' = elapsed_time + segdur
    /\ UNCHANGED <<duration, length, nMags, freq, argv, opening, turnaround,
                   boot, codec, pretime, rfrq, worstcounter, counters, cur,
                   file_paths, openfiles, recorded, last,
                   everReady, checks, frqreads,
                   dispVars, archs, pc>>

(* lines 260-265: the loop is over, the paths left in filepaths are        *)
(* compressed and the function returns *)
TextReturn ==
    /\ pc = "text"
    /\ elapsed_time >= duration
    /\ \E ok \in [1 .. Len(file_list) -> BOOLEAN] :
          /\ archlog' = archlog \o KeepLog(file_list)
          /\ compressed' = compressed \cup KeptOk(file_list, ok)
    /\ pc' = "done"
    /\ UNCHANGED <<runVars, segVars, dispVars, archs, now>>

NextText == TextSegment \/ TextReturn

SpecText == InitText /\ [][NextText]_vars

(* --------- RM3100_SOFIA.py: measure_MAG, magrun_SOFIA.py: measure ----- *)
(* Runs that keep the timestamp of every row, polled tick by tick: of      *)
(* measure_and_save with measure_and_save_cont_MAG, and of measure of      *)
(* magrun_SOFIA.py with measure_MAG, which takes the whole duration as one *)
(* segment. *)
InitLoop ==
    /\ ConfigInit(LoopMaxDuration, LoopMaxMags, Freqs, 0, 0) /\ ProgInit /\ DiskInit
    /\ pc \in {"loop", "measure"}
    /\ pc = "measure" => length = duration

PollStamped == PollAt(TRUE)

(* measure lines 85-91 and measure_MAG lines 297-336: the segment is set   *)
(* up; when open() raises for a file the files opened so far are closed    *)
(* and the exception, raised again, ends the run *)
SofiaSetUp ==
    /\ pc = "measure"
    /\ elapsed_time < duration
    /\ \E openUpTo \in 0 .. nMags :
        LET paths == [k \in 1 .. nMags |-> FilePath(k, now)]
            made == {paths[k] : k \in 1 .. openUpTo}
        IN /\ segment_duration' = duration - elapsed_time
           /\ start' = now
           /\ counters' = [k \in 1 .. nMags |-> 0]
           /\ files' = files \cup made
           /\ IF openUpTo = nMags
              THEN /\ openfiles' = openfiles \cup made
                   /\ file_paths' = paths
                   /\ pretime' = opening
                   /\ now' = now + opening
                   /\ recorded' = [k \in 1 .. nMags |-> LastRow(recorded[k])]
                   /\ pc' = "sround"
              ELSE /\ openfiles' = openfiles
                   /\ file_paths' = SubSeq(paths, 1, openUpTo + 1)
                   /\ pretime' = pretime
                   /\ now' = now
                   /\ recorded' = recorded
                   /\ pc' = "crashed"
    /\ cur' = 0
    /\ last' = NoPoll
    /\ checks' = [k \in 1 .. nMags |-> 0]
    /\ UNCHANGED <<duration, length, nMags, freq, argv, opening, turnaround,
                   boot, codec, elapsed_time, file_list, segs, rfrq,
                   worstcounter, everReady, frqreads, dispVars, archVars>>

(* while time.time() <= finish + pretime, line 342 *)
SofiaRoundStart ==
    /\ pc = "sround"
    /\ now <= finish + pretime
    /\ pc' = "spoll"
    /\ cur' = 1
    /\ UNCHANGED <<runVars, start, pretime, rfrq, worstcounter, counters,
                   file_paths, openfiles, files, recorded, last,
                   everReady, checks, frqreads,
                   dispVars, archVars, now>>

(* if mag.check_measurement(): ... if mag_data: counters[i] += 1, with no   *)
(* test of the counter *)
SofiaCounterAfter(counter, ready, readok) ==
    IF ready /\ readok THEN counter + 1 ELSE counter

(* lines 343-362: one pass of the for loop; the row is written with the    *)
(* counter already incremented *)
SofiaPoll ==
    /\ pc = "spoll"
    /\ \E st \in StatusReads, rd \in BOOLEAN :
        LET ready == CheckMeasurement(st)
            nxt == NextMag(cur, nMags, ready, ready /\ rd)
        IN /\ (~ready => rd)
           /\ counters' = [counters EXCEPT ![cur] = SofiaCounterAfter(@, ready, rd)]
           /\ recorded' =
                  IF ready /\ rd
                  THEN [recorded EXCEPT ![cur] =
                           Append(@, Row(Len(segs) + 1, counters'[cur],
                                         Timestamp(now, start), TRUE))]
                  ELSE recorded
           /\ last' = [mag |-> cur,
                       ready |-> IF ~st.ok THEN "fail"
                                 ELSE IF ready THEN "yes" ELSE "no",
                       read |-> IF ~ready THEN "none"
                                ELSE IF rd THEN "ok" ELSE "fail",
                       capped |-> FALSE]
           /\ everReady' = [everReady EXCEPT ![cur] = @ \/ ready]
           /\ checks' = [checks EXCEPT ![cur] = @ + 1]
           /\ cur' = nxt
           /\ IF nxt = 0
              THEN pc' = "sround" /\ now' = now + 1
              ELSE pc' = "spoll" /\ now' = now
    /\ UNCHANGED <<runVars, start, pretime, rfrq, worstcounter, file_paths,
                   openfiles, files, frqreads, dispVars, archVars>>

(* measure_MAG lines 364-370 close the files and return file_paths;        *)
(* measure lines 93-105 append them to file_list and advance elapsed_time  *)
SofiaReturn ==
    /\ pc = "sround"
    /\ now > finish + pretime
    /\ file_list' = AppendPaths(file_list, file_paths, nMags)
    /\ openfiles' = OpenAfterReturn(openfiles, file_paths)
    /\ segs' = Append(segs, [dur |-> segment_duration, paths |-> file_paths,
                              start |-> start, closed |-> now])
    /\ elapsed_time' = elapsed_time + segment_duration
    /\ pc' = "measure"
    /\ UNCHANGED <<duration, length, nMags, freq, argv, opening, turnaround,
                   boot, codec, segment_duration, start, pretime, rfrq,
                   worstcounter, counters, cur, file_paths, files, recorded,
                   last, everReady, checks, frqreads, dispVars, archVars, now>>

(* while elapsed_time < duration fails: measure returns *)
SofiaDone ==
    /\ pc = "measure"
    /\ elapsed_time >= duration
    /\ pc' = "done"
    /\ UNCHANGED <<runVars, segVars, dispVars, archVars, now>>

NextLoop ==
    \/ StartSegment \/ RoundStart \/ PollStamped \/ SegmentReturn \/ Return
    \/ SofiaSetUp \/ SofiaRoundStart \/ SofiaPoll \/ SofiaReturn \/ SofiaDone

SpecLoop == InitLoop /\ [][NextLoop]_vars

(* ------ RM3100_NM.py: the frequency reads of a segment, read8 --------- *)
(* Runs that keep what read8(0x8B) returned for each magnetometer when the *)
(* segment was set up, polled tick by tick.  The frequency registers hold  *)
(* values of Freqs, not the same in every magnetometer, and each read of a *)
(* register may fail. *)
InitFreq ==
    /\ duration \in 1 .. FreqMaxDuration
    /\ length \in 1 .. duration
    /\ argv = [n |-> 4, duration |-> duration, length |-> length]
    /\ nMags \in 1 .. FreqMaxMags
    /\ freq \in [1 .. nMags -> Freqs]
    /\ opening = 0
    /\ turnaround = 0
    /\ ProgInit /\ DiskInit /\ pc = "loop"

StartSegmentRead ==
    \E frOk \in [1 .. nMags -> BOOLEAN] : SetUpSegmentAt(frOk, nMags, 0, 0, TRUE)

NextFreq == StartSegmentRead \/ RoundStart \/ Poll \/ SegmentReturn \/ Return

SpecFreq == InitFreq /\ [][NextFreq]_vars

(* ------------------- the writers of segment files --------------------- *)
(* A timestamp is a double: near the present epoch doubles are 2^-22 s     *)
(* apart, TsSub of them to the microsecond; timestamps are counted in      *)
(* that unit.  A text is modelled by what it denotes and how it was        *)
(* formatted. *)
Header == <<"Timestamp", "Counter", "X", "Y", "Z">>

(* _convert_measurement: three bytes read as a signed integer, 255 put in  *)
(* front when the first is 64 or more and 0 otherwise; the least and the   *)
(* greatest value it gives *)
Readings == {[x |-> 0, y |-> 0, z |-> 0],
             [x |-> -12582912, y |-> 4194303, z |-> -1]}

(* the closed segments tried: up to MaxSamples samples, counted from 0     *)
(* (RM3100_NM) or from 1 (RM3100_SOFIA, depracatedfunc), the clock not     *)
(* going backwards *)
Segments ==
    UNION {{[k \in 1 .. n |-> [ts |-> t[k], counter |-> k - 1 + b,
                               x |-> r[k].x, y |-> r[k].y, z |-> r[k].z]] :
               t \in {u \in [1 .. n -> 0 .. MaxTs] :
                         \A k \in 1 .. n - 1 : u[k] <= u[k + 1]},
               r \in [1 .. n -> Readings], b \in {0, 1}} :
           n \in 0 .. MaxSamples}

RoundHalfEven(a, b) ==
    LET q == a \div b
        r == a % b
    IN IF 2 * r < b THEN q
       ELSE IF 2 * r > b THEN q + 1
       ELSE IF q % 2 = 0 THEN q ELSE q + 1

(* str(n) of an integer and int(text) *)
StrInt(n) == [neg |-> n < 0, digits |-> IF n < 0 THEN 0 - n ELSE n]
ParseInt(txt) == IF txt.neg THEN 0 - txt.digits ELSE txt.digits

(* csv.writer writes a float with repr: the shortest decimal that reads    *)
(* back as the same double *)
ReprFloat(t) == [fmt |-> "repr", n |-> t]

(* f"{timestamp:.6f}": the decimal with six digits after the point that    *)
(* is nearest to the double, a count of microseconds *)
Fixed6(t) == [fmt |-> "fixed6", n |-> RoundHalfEven(t, TsSub)]

(* float(text): the double nearest to the decimal *)
ParseFloat(txt) == IF txt.fmt = "repr" THEN txt.n ELSE txt.n * TsSub

(* save_results_to_csv lines 345-356 *)
CsvFile(samples) ==
    <<Header>> \o [k \in 1 .. Len(samples) |->
                     <<ReprFloat(samples[k].ts), StrInt(samples[k].counter),
                       StrInt(samples[k].x), StrInt(samples[k].y),
                       StrInt(samples[k].z)>>]

(* measure_MAG line 356 after the header of line 326 *)
SofiaFile(samples) ==
    <<Header>> \o [k \in 1 .. Len(samples) |->
                     <<Fixed6(samples[k].ts), StrInt(samples[k].counter),
                       StrInt(samples[k].x), StrInt(samples[k].y),
                       StrInt(samples[k].z)>>]

(* save_results_to_binary lines 490-503: the five columns as an array of   *)
(* Python objects, pickled by np.save *)
NpyFile(samples) ==
    [ts |-> [k \in 1 .. Len(samples) |-> samples[k].ts],
     counter |-> [k \in 1 .. Len(samples) |-> samples[k].counter],
     x |-> [k \in 1 .. Len(samples) |-> samples[k].x],
     y |-> [k \in 1 .. Len(samples) |-> samples[k].y],
     z |-> [k \in 1 .. Len(samples) |-> samples[k].z]]

(* reading a file back: csv.reader with float and int on the fields after  *)
(* the header row, np.load with the columns put together again *)
DecodeRows(file) ==
    [k \in 1 .. Len(file) - 1 |->
        [ts |-> ParseFloat(file[k + 1][1]), counter |-> ParseInt(file[k + 1][2]),
         x |-> ParseInt(file[k + 1][3]), y |-> ParseInt(file[k + 1][4]),
         z |-> ParseInt(file[k + 1][5])]]

DecodeColumns(cols) ==
    [k \in 1 .. Len(cols.ts) |->
        [ts |-> cols.ts[k], counter |-> cols.counter[k],
         x |-> cols.x[k], y |-> cols.y[k], z |-> cols.z[k]]]

DecodeFile(writer, file) ==
    IF writer = "npy" THEN DecodeColumns(file) ELSE DecodeRows(file)

InitCodec ==
    /\ ConfigInit(1, 1, {TMRC}, 0, 0) /\ MeasureInit /\ DiskInit
    /\ boot = Booted(nMags)
    /\ pc = "off"
    /\ \E s \in Segments : codec = [NoCodec EXCEPT !.pc = "closed", !.samples = s]

WriteWith(w, file) ==
    /\ codec.pc = "closed"
    /\ codec' = [codec EXCEPT !.pc = "written", !.writer = w, !.file = file]
    /\ UNCHANGED <<duration, length, nMags, freq, argv, opening, turnaround, boot, elapsed_time,
                   segment_duration, file_list, segs, segVars, dispVars,
                   archVars, pc, now>>

SaveResultsToCsv == WriteWith("csv", CsvFile(codec.samples))
SaveResultsToBinary == WriteWith("npy", NpyFile(codec.samples))
MeasureMAGRows == WriteWith("sofia", SofiaFile(codec.samples))

Decode ==
    /\ codec.pc = "written"
    /\ codec' = [codec EXCEPT !.pc = "decoded",
                              !.decoded = DecodeFile(codec.writer, codec.file)]
    /\ UNCHANGED <<duration, length, nMags, freq, argv, opening, turnaround, boot, elapsed_time,
                   segment_duration, file_list, segs, segVars, dispVars,
                   archVars, pc, now>>

DecodeAgain ==
    /\ codec.pc = "decoded"
    /\ codec' = [codec EXCEPT !.pc = "again",
                              !.again = DecodeFile(codec.writer, codec.file)]
    /\ UNCHANGED <<duration, length, nMags, freq, argv, opening, turnaround, boot, elapsed_time,
                   segment_duration, file_list, segs, segVars, dispVars,
                   archVars, pc, now>>

NextCodec ==
    \/ SaveResultsToCsv \/ SaveResultsToBinary \/ MeasureMAGRows
    \/ Decode \/ DecodeAgain

SpecCodec == InitCodec /\ [][NextCodec]_vars

(* =============================== claims =============================== *)
Produced == Flatten([k \in 1 .. Len(segs) |-> segs[k].paths])
(* the number of the latest segment acquired: the one under way if any *)
LatestSegment ==
    IF pc \in {"round", "poll", "sround", "spoll"} THEN Len(segs) + 1 ELSE Len(segs)
LaunchFailedStep ==
    /\ Len(dispatches') = Len(dispatches) + 1
    /\ Len(launched') = Len(launched)

(* C1: when measure_and_save returns after a run of duration d with        *)
(* segment length L, 1 <= L <= d, it has run exactly ceil(d/L) segments,   *)
(* each with one file per magnetometer; every segment but the last was     *)
(* requested with duration L and the last with d mod L, or L when L        *)
(* divides d. *)
C1_SegmentCount ==
    pc = "done" =>
        /\ Len(segs) = CeilDiv(duration, length)
        /\ \A k \in 1 .. Len(segs) - 1 : segs[k].dur = length
        /\ segs[Len(segs)].dur =
               (IF duration % length = 0 THEN length ELSE duration % length)
        /\ \A k \in 1 .. Len(segs) : Len(segs[k].paths) = nMags

C1_Witness ==
    /\ pc = "done"
    /\ duration % length # 0
    /\ Len(segs) >= 3

C3_DispatchAtTPlusOne ==
    /\ Len(file_list) <= BatchThreshold
    /\ \A k \in 1 .. Len(dispatches) :
          /\ dispatches[k].segdur = length => Len(dispatches[k].fl) > BatchThreshold
          /\ Len(dispatches[k].fl) <= BatchThreshold + 1

(* C3 amended: a dispatch made for the size of the backlog happens exactly *)
(* when appending the paths of a segment makes the backlog exceed T = 16:  *)
(* the backlog kept from one segment to the next never exceeds T, a        *)
(* dispatch after a full-length segment finds more than T entries, and a   *)
(* dispatched backlog holds at most T + n entries, n the number of         *)
(* magnetometers (T+1 with a single magnetometer), having held at most T   *)
(* before the last segment was appended. *)
C3_DispatchAboveT ==
    /\ Len(file_list) <= BatchThreshold
    /\ \A k \in 1 .. Len(dispatches) :
          /\ dispatches[k].segdur = length => Len(dispatches[k].fl) > BatchThreshold
          /\ Len(dispatches[k].fl) <= BatchThreshold + nMags

C3_Witness ==
    \E k \in 1 .. Len(dispatches) :
        /\ dispatches[k].segdur = length
        /\ Len(dispatches[k].fl) > BatchThreshold + 1

(* C4: when measure_and_save returns, every segment file path produced     *)
(* during the run is listed in a manifest that was handed to an archiver,  *)
(* and the backlog is empty. *)
C4_DrainOnReturn ==
    pc = "done" =>
        /\ file_list = <<>>
        /\ \A p \in Range(Produced) :
              \E k \in 1 .. Len(dispatches) :
                  /\ dispatches[k].launch = "ok"
                  /\ p \in Range(dispatches[k].written.lines)

(* C5: the counter of a magnetometer advances, by exactly 1, on a tick if  *)
(* and only if its ready-check returned true and its read succeeded on     *)
(* that tick; when the read fails the counter is unchanged, no record is   *)
(* produced and the loop moves on to the next magnetometer. *)
C5_CounterAdvance ==
    [][ /\ \A k \in 1 .. nMags :
             /\ (counters'[k] = counters[k] + 1) <=>
                    (pc = "poll" /\ cur = k /\ last'.ready = "yes" /\ last'.read = "ok")
             /\ counters'[k] \in {counters[k], counters[k] + 1, 0}
             /\ (Len(recorded'[k]) = Len(recorded[k]) + 1) <=>
                    (counters'[k] = counters[k] + 1)
        /\ (pc = "poll" /\ last'.read = "fail") =>
             /\ counters' = counters
             /\ recorded' = recorded
             /\ cur' # cur ]_vars

C5_Witness ==
    /\ last.mag # 0
    /\ last.ready = "yes"
    /\ last.read = "fail"
    /\ counters[last.mag] > 0

(* C6: a ready-check or read of magnetometer A, whatever its outcome,      *)
(* leaves the counter and the records of every other magnetometer B        *)
(* unchanged and hands the turn to the next magnetometer of the list, so   *)
(* B is polled on the same tick; a magnetometer that never reported ready  *)
(* has no sample. *)
C6_FailureIsolation ==
    /\ [][ pc = "poll" =>
             /\ \A b \in (1 .. nMags) \ {cur} :
                   counters'[b] = counters[b] /\ recorded'[b] = recorded[b]
             /\ cur' = (IF cur < nMags THEN cur + 1 ELSE 0) ]_vars
    /\ [](\A k \in 1 .. nMags :
             ~everReady[k] => counters[k] = 0 /\ recorded[k] = <<>>)

C6_Witness ==
    /\ nMags = 2
    /\ last.mag = 2
    /\ last.read = "ok"
    /\ ~everReady[1]
    /\ Len(recorded[2]) >= 2

(* C7: the samples a magnetometer has had accepted in the segment never    *)
(* exceed the worst-case bound computed at the start of the segment; at    *)
(* the bound the magnetometer is still ready-checked but nothing more is   *)
(* read or counted. *)
C7_CappedAtBound ==
    /\ [](\A k \in 1 .. nMags : counters[k] <= worstcounter)
    /\ [][ (pc = "poll" /\ counters[cur] >= worstcounter) =>
             /\ last'.mag = cur
             /\ last'.ready \in {"yes", "no", "fail"}
             /\ last'.read = "none"
             /\ counters' = counters
             /\ recorded' = recorded ]_vars

C7_Witness ==
    /\ last.mag # 0
    /\ last.capped
    /\ worstcounter > 0
    /\ counters[last.mag] = worstcounter

(* C8 as stated: the bound that caps a segment is                          *)
(* ceil(1.1 * max(reported frequencies) / 3 * duration), rounded once,     *)
(* upward, after the multiplication. *)
C8_CeilOfProduct ==
    pc = "round" => worstcounter = CeilDiv(11 * rfrq * segment_duration, 30)

(* C8 amended: the bound that caps a segment is                            *)
(* floor(1.1 * max(reported frequencies) / 3) * duration: the rate per     *)
(* second is rounded downward before it is multiplied by the duration, so  *)
(* the bound is a multiple of the duration and never exceeds the product   *)
(* 1.1 * max / 3 * duration; a frequency read that failed counts as 0. *)
C8_FloorOfRate ==
    pc = "round" =>
        /\ \E q \in 0 .. 255 :
              /\ worstcounter = q * segment_duration
              /\ 30 * q <= 11 * rfrq
              /\ 11 * rfrq < 30 * (q + 1)
        /\ 30 * worstcounter <= 11 * rfrq * segment_duration
        /\ rfrq \in {0} \cup Range(freq)

C8_Witness ==
    /\ pc = "round"
    /\ rfrq = 200
    /\ segment_duration = 3
    /\ worstcounter = 219

(* C9: an archiver that has finished after a listed path was missing or    *)
(* failed to compress has left the manifest in place. *)
C9_ManifestKeptOnFailure ==
    \A j \in 1 .. Len(archs) :
        (/\ archs[j].pc = "done"
         /\ \E k \in 1 .. Len(archlog) :
               /\ archlog[k].job = j
               /\ archlog[k].ev \in {"File not found", "Error compressing"})
            => archs[j].txt \in DOMAIN manifests

(* C10: when starting the archiver fails, the failure is logged, the       *)
(* manifest just written is on disk with the lines written to it, no       *)
(* segment file is deleted or modified, and the run goes on to the next    *)
(* segment. *)
C10_LaunchFailure ==
    [][ LaunchFailedStep =>
          LET d == dispatches'[Len(dispatches')]
          IN /\ maglog'[Len(maglog')] =
                   [ev |-> "Failed to launch compression script", t |-> d.t]
             /\ d.written.created =>
                   d.t \in DOMAIN manifests' /\ manifests'[d.t] = d.written.lines
             /\ files' = files
             /\ pc' = "loop"
             /\ elapsed_time' = elapsed_time + segment_duration ]_vars

C10_Witness ==
    /\ pc = "round"
    /\ dispatches # <<>>
    /\ dispatches[Len(dispatches)].launch = "fail"
    /\ dispatches[Len(dispatches)].written.ok
    /\ dispatches[Len(dispatches)].t \in DOMAIN manifests

(* the step is a dispatch that failed: the manifest was not written to its *)
(* end, or the archiver could not be started *)
DispatchFailedStep ==
    /\ Len(dispatches') = Len(dispatches) + 1
    /\ LET d == dispatches'[Len(dispatches')]
       IN d.launch = "fail" \/ ~d.written.ok

(* C11: the backlog is cleared only after the archiver was started: after  *)
(* a dispatch whose manifest could not be written, or whose archiver       *)
(* could not be started, the backlog still holds the paths it held. *)
C11_BacklogKeptOnFailure ==
    [][ DispatchFailedStep => file_list' = dispatches'[Len(dispatches')].fl ]_vars

(* C12: the dispatch does not wait for the archiver.  Whatever the         *)
(* archivers started so far are doing, the next segment can be set up      *)
(* while the run is not over, no step of an archiver changes the state of  *)
(* measure_and_save, and the run comes to its end even when no archiver    *)
(* ever takes a step. *)
C12_FireAndForget ==
    /\ []((pc = "loop" /\ elapsed_time < duration) => ENABLED LoopOn)
    /\ [][archs' # archs =>
              UNCHANGED <<runVars, start, pretime, rfrq, worstcounter, counters,
                          cur, file_paths, openfiles, pc, now>>]_vars
    /\ <>(pc \in {"done", "crashed"})

C12_Witness ==
    /\ pc = "round"
    /\ archs # <<>>
    /\ archs[1].pc = "files"
    /\ archs[1].idx > 1
    /\ archs[1].idx <= Len(archs[1].list)

(* the paths handed over by dispatch k, and the paths of a backlog *)
BacklogPaths(fl) == UNION {Range(fl[i].paths) : i \in 1 .. Len(fl)}
DispatchedPaths(k) == BacklogPaths(dispatches[k].fl)

(* C13: no segment file path is in the manifests, or the backlogs, of two  *)
(* dispatches of a run, and a path that has been dispatched is not open in *)
(* the acquisition process, is not a file of the segment under way and is  *)
(* not in the backlog again. *)
C13_DispatchedOnce ==
    /\ \A j, k \in 1 .. Len(dispatches) :
          j < k =>
             /\ DispatchedPaths(j) \cap DispatchedPaths(k) = {}
             /\ Range(dispatches[j].written.lines)
                    \cap Range(dispatches[k].written.lines) = {}
    /\ \A k \in 1 .. Len(dispatches) :
          /\ DispatchedPaths(k) \cap openfiles = {}
          /\ DispatchedPaths(k) \cap BacklogPaths(file_list) = {}
          /\ pc = "round" => DispatchedPaths(k) \cap Range(file_paths) = {}

C13_Witness ==
    /\ Len(dispatches) >= 2
    /\ dispatches[1].written.lines # <<>>
    /\ dispatches[2].written.lines # <<>>
    /\ dispatches[1].launch = "ok"
    /\ dispatches[2].launch = "ok"
    /\ pc = "round"
    /\ openfiles # {}
    /\ file_list # <<>>

(* C14: when the test of one magnetometer fails at launch while another    *)
(* magnetometer passed its own, the run is not given up: it goes on with   *)
(* the magnetometers that passed. *)
C14_FailingSensorExcluded ==
    (/\ \E k \in 1 .. Len(boot.tests) : ~boot.tests[k]
     /\ \E k \in 1 .. Len(boot.tests) : boot.tests[k])
        => pc # "aborted"

(* the step sets up a segment and open() raises for one of its files *)
OpenFailedStep ==
    /\ pc = "loop"
    /\ elapsed_time < duration
    /\ \E p \in Range(file_paths') : p \notin files'

(* C15: when a file of a segment cannot be opened the run is not ended:    *)
(* only that segment is lost and measure_and_save goes on with the         *)
(* segments that follow. *)
C15_RunContinuesAfterOpenFailure ==
    [][ OpenFailedStep => pc' \in {"loop", "round"} ]_vars

(* C16: when the output folders cannot be made, or the first magnetometer  *)
(* launched fails its test so that none passes, the run is given up        *)
(* before measure_and_save: no segment file is created or open, no         *)
(* ready-check and no read is made and no segment is acquired, ever. *)
C16_AbortAtStartup ==
    (\/ boot.dir = "fail"
     \/ /\ boot.tests # <<>>
        /\ \A k \in 1 .. Len(boot.tests) : ~boot.tests[k])
        => /\ pc = "aborted"
           /\ files = {}
           /\ openfiles = {}
           /\ last = NoPoll
           /\ segs = <<>>
           /\ \A k \in 1 .. nMags :
                 recorded[k] = <<>> /\ ~everReady[k] /\ counters[k] = 0

C16_Witness ==
    /\ pc = "aborted"
    /\ boot.dir = "ok"
    /\ nMags >= 2
    /\ boot.tests = <<FALSE>>

(* what measure_and_save_cont_MAG writes to the file of magnetometer k of  *)
(* the latest segment: the header row written when the file is opened;     *)
(* the writer.writerow of the sample is commented out, the rows of         *)
(* recorded go to the standard output only *)
FileContent(k) == IF file_paths[k] \in files THEN <<Header>> ELSE <<>>

(* C17: a segment file returned by the acquisition loop holds the header   *)
(* row and then one record per sample read in the segment: as many data    *)
(* records as the counter of its magnetometer advanced. *)
C17_OneRecordPerSample ==
    (pc = "loop" /\ segs # <<>>) =>
        \A k \in 1 .. nMags :
            /\ FileContent(k) # <<>>
            /\ FileContent(k)[1] = Header
            /\ Len(FileContent(k)) - 1 = counters[k]

(* C18: a segment of K samples written by the tabular writers or the       *)
(* binary writer and read back gives exactly K records, equal to the       *)
(* samples in timestamp, counter and axis values, and reading the file     *)
(* once more gives the same records. *)
C18_RoundTrip ==
    /\ codec.pc \in {"decoded", "again"} =>
          /\ Len(codec.decoded) = Len(codec.samples)
          /\ codec.decoded = codec.samples
    /\ codec.pc = "again" => codec.again = codec.decoded

(* the clock value after which the acquisition loop is to stop *)
Deadline == start + segment_duration * TicksPerSec + pretime

(* C19: a polling round is started only while the clock is at or before    *)
(* start + duration + pretime and the loop is left only once the clock is  *)
(* past it; at the loop test a round is never refused at or before the     *)
(* deadline and never started after it. *)
C19_LoopDeadline ==
    /\ [][ (pc = "round" /\ pc' = "poll") => now <= Deadline ]_vars
    /\ [][ (pc = "round" /\ pc' = "loop") => now > Deadline ]_vars
    /\ [](pc = "round" => (ENABLED RoundStart <=> now <= Deadline))
    /\ [](pc = "round" => (ENABLED SegmentReturn <=> now > Deadline))

C19_Witness ==
    /\ pc = "poll"
    /\ pretime > 0
    /\ now = Deadline
    /\ Len(segs) >= 1


(* C20: sensors are ready-checked in the order of the sensor list: a pass  *)
(* of the loop ready-checks exactly the sensor whose turn it is and hands  *)
(* the turn to the next one in the list, whatever the status read, the     *)
(* counter or the read outcome; inside a round the sensors before the turn *)
(* have one ready-check more than the others, so between two ready-checks  *)
(* of one sensor every other sensor has exactly one; outside a round, and  *)
(* so when the loop has exited, all sensors have the same number.          *)
C20_RoundRobin ==
    /\ [][pc = "poll" =>
            /\ checks' = [checks EXCEPT ![cur] = @ + 1]
            /\ last'.mag = cur
            /\ cur' = IF cur < nMags THEN cur + 1 ELSE 0
            /\ pc' = IF cur < nMags THEN "poll" ELSE "round"]_vars
    /\ [][pc = "round" /\ pc' = "poll" => cur' = 1 /\ checks' = checks]_vars
    /\ [](pc = "poll" =>
            \A k \in 1 .. nMags :
                checks[k] = checks[nMags] + (IF k < cur THEN 1 ELSE 0))
    /\ [](pc # "poll" => \A k \in 1 .. nMags : checks[k] = checks[nMags])

C20_Witness ==
    /\ pc = "loop"
    /\ nMags = 2
    /\ segs # <<>>
    /\ checks[1] >= 2
    /\ checks[2] = checks[1]
    /\ counters[1] = worstcounter
    /\ counters[2] = 0

(* the lines a manifest of the backlog fl is to hold: its paths in order *)
BacklogLines(fl) == Flatten([i \in 1 .. Len(fl) |-> fl[i].paths])

(* C23: whatever the number of magnetometers, one included, a dispatch     *)
(* during which the file system does not fail writes a manifest that holds *)
(* exactly the paths of the backlog, one to a line, in the order of the    *)
(* backlog, and nothing else. *)
C23_ManifestListsBacklog ==
    \A k \in 1 .. Len(dispatches) :
        dispatches[k].fs = "ok" =>
            /\ dispatches[k].written.ok
            /\ dispatches[k].written.lines = BacklogLines(dispatches[k].fl)
            /\ dispatches[k].t \in DOMAIN manifests
            /\ manifests[dispatches[k].t] = BacklogLines(dispatches[k].fl)

(* C24: an archiver is started on a manifest only when the manifest was    *)
(* written to its end: after a write that failed no archiver is started. *)
C24_LaunchOnlyAfterWrite ==
    \A k \in 1 .. Len(dispatches) :
        dispatches[k].launch = "ok" => dispatches[k].written.ok

(* the files magnetometer k has open *)
OpenOf(k) == {p \in openfiles : p.mag = Addresses[k]}

(* C25: while a segment is being acquired every magnetometer has exactly   *)
(* one file open, and the segments of a run follow one another with no gap *)
(* and no overlap: each segment after the first starts at the moment the   *)
(* segment before it was closed, never earlier. *)
C25_ContiguousSegments ==
    /\ pc \in {"round", "poll"} =>
          \A k \in 1 .. nMags : Cardinality(OpenOf(k)) = 1
    /\ \A j \in 1 .. Len(segs) - 1 : segs[j + 1].start = segs[j].closed
    /\ (pc \in {"round", "poll"} /\ segs # <<>>) => start = segs[Len(segs)].closed

(* C26: the segment length parse_arguments returns is at most the          *)
(* duration and at most 3600 seconds: it is min(requested length,          *)
(* duration, 3600) when a length is given and min(duration, 3600) when     *)
(* none is, and the duration returned is the one given. *)
C26_LengthCappedAt3600 ==
    (pc \notin {"args", "usage"} /\ argv.n \in {3, 4}) =>
        /\ duration = argv.duration
        /\ length = (IF argv.n = 4
                     THEN Min(Min(argv.length, argv.duration), 3600)
                     ELSE Min(argv.duration, 3600))

(* C30: for every duration and length parse_arguments returns, a length of *)
(* 0 or below included, measure_and_save comes to its end: every pass of   *)
(* its loop brings elapsed_time nearer to the duration, at every loop head *)
(* 0 <= elapsed_time <= duration, and on return elapsed_time = duration. *)
C30_RunTerminates ==
    /\ [](pc = "loop" => (0 <= elapsed_time /\ elapsed_time <= duration))
    /\ [](pc = "done" => elapsed_time = duration)
    /\ [][(pc = "round" /\ pc' = "loop") => elapsed_time' > elapsed_time]_vars

(* what archiver j printed for the listed paths it came to: a path not     *)
(* found, or what xz made of a path that exists *)
Handled(j) ==
    LET OfJob(e) == e.job = j /\ e.ev \in {"File not found", "Compressed",
                                            "Error compressing"}
        es == SelectSeq(archlog, OfJob)
    IN [k \in 1 .. Len(es) |-> es[k].p]

(* C28: the archiver goes through its manifest in order and a listed path  *)
(* that is missing, or that the compressor fails on, keeps no later path   *)
(* from being compressed: when the archiver has finished it has come to    *)
(* every line of the manifest it read, in the order of the manifest, and   *)
(* has handed each path that existed to the compressor once. *)
C28_PerFileIsolation ==
    \A j \in 1 .. Len(archs) :
        (archs[j].mode = "xz" /\ archs[j].pc = "done")
            => Handled(j) = archs[j].list

(* the calls of compress_file_keep made on path p *)
KeepCalls(p) ==
    Cardinality({k \in 1 .. Len(archlog) :
                    archlog[k].ev = "compress_file_keep" /\ archlog[k].p = p})

(* C29: when measure_and_save_text has returned, every segment file made   *)
(* during the run has been handed to compress_file_keep exactly once, and  *)
(* during the run no file is handed to it twice. *)
C29_EveryFileCompressedOnce ==
    /\ \A p \in Range(Produced) : KeepCalls(p) <= 1
    /\ pc = "done" => \A p \in Range(Produced) : KeepCalls(p) = 1

(* C21: for every magnetometer the timestamps of its rows never decrease   *)
(* from a row to the next one emitted, inside a segment and from the last  *)
(* row of a segment to the first of the next, and no row carries a time    *)
(* the clock has not reached. *)
C21_TimestampsOrdered ==
    \A k \in 1 .. nMags :
        /\ \A j \in 1 .. Len(recorded[k]) - 1 :
              recorded[k][j].ts <= recorded[k][j + 1].ts
        /\ \A j \in 1 .. Len(recorded[k]) : recorded[k][j].ts <= now

C21_Witness ==
    /\ pc = "round"
    /\ Len(recorded[1]) >= 3
    /\ recorded[1][1].seg = 1
    /\ recorded[1][2].seg = 2
    /\ recorded[1][3].seg = 2
    /\ recorded[1][1].ts < recorded[1][2].ts

(* the rows of magnetometer k emitted in the latest segment *)
SegmentRows(k) ==
    LET InLatest(r) == r.seg = LatestSegment
    IN SelectSeq(recorded[k], InLatest)

(* C22: in a segment the rows of a magnetometer carry the counters 0, 1,   *)
(* 2, ... in the order they were emitted: the first sample of the segment  *)
(* carries 0 and each one after it the counter of the one before plus 1. *)
C22_CountsFromZero ==
    \A k \in 1 .. nMags : \A j \in 1 .. Len(SegmentRows(k)) :
        SegmentRows(k)[j].counter = j - 1

(* the bound of measure_and_save_cont_MAG for the segment under way, the   *)
(* frequency registers read without failure *)
RateBound ==
    WorstCounter([k \in 1 .. nMags |-> R8(TRUE, freq[k])], segment_duration)

(* C27: in measure_MAG the samples accepted from a magnetometer in a       *)
(* segment never exceed the worst-case bound for the segment: the counter  *)
(* of every magnetometer is at most the bound at every point of the loop. *)
C27_SofiaCapped ==
    pc \in {"sround", "spoll"} =>
        \A k \in 1 .. nMags : counters[k] <= RateBound

(* the step is a dispatch *)
DispatchStep == Len(dispatches') = Len(dispatches) + 1

(* C31: every path placed in a manifest is of a file the acquisition loop  *)
(* has closed: when a dispatch is made the acquisition process holds no    *)
(* segment file open and every line written is a path of a segment that    *)
(* has returned; and at no time is a path of a manifest on disk, or of the *)
(* list an archiver works through, open for writing in the acquisition     *)
(* process. *)
C31_ManifestPathsClosed ==
    /\ [][ DispatchStep =>
             /\ openfiles' = {}
             /\ \A p \in Range(dispatches'[Len(dispatches')].written.lines) :
                   \E k \in 1 .. Len(segs') :
                       /\ p \in Range(segs'[k].paths)
                       /\ segs'[k].closed <= now ]_vars
    /\ [](\A t \in DOMAIN manifests : Range(manifests[t]) \cap openfiles = {})
    /\ [](\A j \in 1 .. Len(archs) : Range(archs[j].list) \cap openfiles = {})

C31_Witness ==
    /\ pc = "round"
    /\ openfiles # {}
    /\ compressed # {}
    /\ \E j \in 1 .. Len(archs) :
          /\ archs[j].pc = "files"
          /\ archs[j].idx <= Len(archs[j].list)
          /\ archs[j].txt \in DOMAIN manifests

(* the paths of the segments returned and of the segment under way, in the *)
(* order the files were opened *)
AllPaths ==
    Produced \o (IF pc \in {"round", "poll", "crashed"} THEN file_paths ELSE <<>>)

(* C32: the segment file paths of a run are pairwise distinct, across the  *)
(* magnetometers of a segment and across the segments, each of which lasts *)
(* a second or more, so open(file_path, 'w') never truncates a file of an  *)
(* earlier segment: no file on disk is the file of two segments. *)
C32_PathsDistinct ==
    LET paths == AllPaths
        names == Range(paths)
    IN /\ Cardinality(names) = Len(paths)
       /\ \A k \in 1 .. Len(segs) : segs[k].dur >= 1
       /\ files \subseteq names
       /\ pc # "crashed" => files = names

C32_Witness ==
    /\ pc = "round"
    /\ nMags = 2
    /\ Len(segs) = 1
    /\ Cardinality(files) = 4
    /\ Cardinality(Range(AllPaths)) = 4
    /\ segs[1].paths[1].mag = file_paths[1].mag
    /\ segs[1].paths[1].t < file_paths[1].t

(* the magnetometers whose frequency register was read when the latest     *)
(* segment was set up, and the highest value read *)
FreqRead == {k \in 1 .. Len(frqreads) : frqreads[k].ok}
HighestRead ==
    CHOOSE v \in {frqreads[k].val : k \in FreqRead} :
        \A k \in FreqRead : frqreads[k].val <= v

(* C33: when read8(0x8B) fails for every magnetometer as a segment is set  *)
(* up the bound of the segment is 0 and no sample of any magnetometer is   *)
(* accepted in the segment, whatever the ready-checks and the reads do;    *)
(* when it fails for some only, the bound is that of the highest value     *)
(* read: int(1.1*round(v)/3) times the duration of the segment. *)
C33_BoundFromReads ==
    frqreads # <<>> =>
        /\ FreqRead = {} =>
              /\ worstcounter = 0
              /\ \A k \in 1 .. nMags : counters[k] = 0 /\ SegmentRows(k) = <<>>
        /\ FreqRead # {} =>
              worstcounter = WorstFreq(HighestRead) * segment_duration

C33_Witness ==
    /\ pc = "poll"
    /\ nMags = 2
    /\ FreqRead = {}
    /\ freq[1] = 6
    /\ checks[1] >= 2
    /\ everReady[1] /\ everReady[2]
    /\ last.ready = "yes"
    /\ last.capped

C35_ManifestNamesDistinct ==
    /\ [](\A j, k \in 1 .. Len(dispatches) :
             j < k => dispatches[j].t < dispatches[k].t)
    /\ [][ DispatchStep =>
             /\ dispatches'[Len(dispatches')].t \notin DOMAIN manifests
             /\ \A t \in DOMAIN manifests : manifests'[t] = manifests[t]
             /\ segs'[Len(segs')].dur >= 1
             /\ dispatches # <<>> =>
                   Stamp(segs'[Len(segs')].start) >= dispatches[Len(dispatches)].t ]_vars

C35_Witness ==
    /\ Len(dispatches) = 2
    /\ dispatches[1].launch = "ok"
    /\ dispatches[2].launch = "ok"
    /\ dispatches[2].segdur = 1
    /\ Len(dispatches[2].fl) = nMags
    /\ dispatches[1].t \in DOMAIN manifests
    /\ dispatches[2].t \in DOMAIN manifests
    /\ manifests[dispatches[1].t] # manifests[dispatches[2].t]

====
